---------------------------- MODULE Spec2Model ----------------------------
(***************************************************************************)
(* Base Rewards Estimator: the scoring core (scoringUtils: computeScores,  *)
(* mapScoreToRewards), the statistics deriver and orchestrator             *)
(* (geminiService: getOnChainData, deriveStats, getRewardEstimate) and the *)
(* form's state machine (App).                                             *)
(*                                                                         *)
(* Numbers.  The program computes in IEEE doubles.  The model keeps        *)
(*   - scores returned by computeScores as integers: the five sub-scores   *)
(*     in hundredths (toFixed(2)), finalScore in thousandths (toFixed(3)); *)
(*   - the arguments of mapScoreToRewards in thousandths (ScoreDen), the   *)
(*     pct column of MAPPING_POINTS in units of 10^-7 (PctDen);            *)
(*   - balances in tenths of the native unit (BalDen);                     *)
(*   - every intermediate real (logarithms, exponentials, unrounded        *)
(*     scores) as a Q26 fixed-point number: the integer floor(x * FxOne).  *)
(* log, log10 and exp are computed by series on the fixed-point numbers,   *)
(* all within 32-bit integers.  The fixed-point result is within 10^-6 of  *)
(* the double; on the input sets below every rounded output (toFixed,      *)
(* Math.round, Math.floor, Math.ceil) equals the one the doubles give.     *)
(***************************************************************************)
EXTENDS Integers, Sequences, FiniteSets, TLC

(***************************************************************************)
(* Bounds of the model.                                                    *)
(***************************************************************************)
\* mapScoreToRewards is applied to every score from -ScoreSlack/1000 to
\* 1 + ScoreSlack/1000 on the 0.001 grid.
ScoreSlack == 12

\* The wallet input holds at most MaxInputLen characters.
MaxInputLen == 2

(***************************************************************************)
(* Fixed-point arithmetic (the `number` type of the source).               *)
(***************************************************************************)
FxHalf == 2^13
FxOne == FxHalf * FxHalf

Min(a, b) == IF a <= b THEN a ELSE b
Max(a, b) == IF a >= b THEN a ELSE b

\* floor(a * b / FxOne) for fixed-point 0 <= a, b <= FxOne.
FxMul(a, b) ==
    LET ah == a \div FxHalf
        al == a % FxHalf
        bh == b \div FxHalf
        bl == b % FxHalf
    IN  ah * bh + ((ah * bl + al * bh) + ((al * bl) \div FxHalf)) \div FxHalf

RECURSIVE LongDiv(_, _, _, _)
\* Binary long division: the next `bits` binary digits of r / b, for r < b.
LongDiv(r, b, bits, acc) ==
    IF bits = 0 THEN acc
    ELSE LongDiv((2 * r) % b, b, bits - 1, 2 * acc + ((2 * r) \div b))

\* floor(a * FxOne / b): the fixed-point quotient of two integers (or of two
\* fixed-point numbers), for a >= 0 and 0 < b < 2^30.
FxDiv(a, b) == (a \div b) * FxOne + LongDiv(a % b, b, 26, 0)

\* floor(a * p / q) for fixed-point a >= 0 and small integers p, q.
FxScale(a, p, q) == (a \div q) * p + ((a % q) * p) \div q

\* Math.round(c * a) for an integer 0 <= c < 2^17 and fixed-point
\* 0 <= a <= FxOne: floor(c * a / FxOne + 1/2), ties upward as Math.round
\* and toFixed do.
FxRoundTimes(c, a) ==
    (c * (a \div FxHalf) + (c * (a % FxHalf) + FxOne \div 2) \div FxHalf) \div FxHalf

\* Faulty variant: Math.floor where the code has Math.round.
MathRound_Floor(num, den) == num \div den

\* Math.round(num / den) for integers, den > 0: floor(num/den + 1/2), which
\* is floor((num + floor(den/2)) / den) for either parity of den.
MathRound(num, den) == (num + den \div 2) \div den

\* Math.ceil of a fixed-point number a >= 0.
FxCeil(a) == (a + FxOne - 1) \div FxOne

RECURSIVE AtanhSum(_, _, _, _)
\* z + z^3/3 + z^5/5 + ... : zpow is the current odd power of z, k its index.
AtanhSum(zpow, z2, k, acc) ==
    IF zpow = 0 THEN acc
    ELSE AtanhSum(FxMul(zpow, z2), z2, k + 2, acc + zpow \div k)

FxAtanh(z) == AtanhSum(z, FxMul(z, z), 1, 0)

RECURSIVE Log2Floor(_)
Log2Floor(x) == IF x < 2 THEN 0 ELSE 1 + Log2Floor(x \div 2)

\* ln 2 = 2 atanh(1/3).
FxLn2 == 2 * FxAtanh(FxDiv(1, 3))

\* Math.log(x) for an integer 1 <= x < 2^29:
\* x = m * 2^e with 1 <= m < 2, ln x = e ln 2 + 2 atanh((m-1)/(m+1)).
FxLn(x) ==
    LET e == Log2Floor(x)
        p == 2^e
    IN  e * FxLn2 + 2 * FxAtanh(FxDiv(x - p, x + p))

FxLn10 == FxLn(10)

\* Math.log10(x) for an integer 1 <= x < 2^29.
FxLog10(x) == FxDiv(FxLn(x), FxLn10)

RECURSIVE ExpSum(_, _, _, _, _)
\* 1 - r + r^2/2! - r^3/3! + ... : term is r^j/j!, sign its sign.
ExpSum(term, r, j, sign, acc) ==
    IF term = 0 THEN acc
    ELSE ExpSum(FxMul(term, r) \div (j + 1), r, j + 1, -sign, acc + sign * term)

RECURSIVE Halvings(_, _, _)
\* The least k with num / (den * 2^k) <= 1/2.
Halvings(num, den, k) ==
    IF den * 2^k >= 2 * num THEN k ELSE Halvings(num, den, k + 1)

RECURSIVE SquareTimes(_, _)
SquareTimes(v, k) == IF k = 0 THEN v ELSE SquareTimes(FxMul(v, v), k - 1)

\* Math.exp(-num/den) for integers num >= 0, den > 0:
\* e^(-x) = (e^(-x / 2^k))^(2^k), the inner exponential by its Taylor series.
FxExpNeg(num, den) ==
    LET k == Halvings(num, den, 0)
        r == FxDiv(num, den * 2^k)
    IN  SquareTimes(ExpSum(FxOne, r, 0, 1, 0), k)

(***************************************************************************)
(* scoringUtils                                                            *)
(***************************************************************************)
POOL_SIZE == 1000000000

\* Scores are in thousandths, pct in units of 10^-7.
ScoreDen == 1000
PctDen == 10000000

MAPPING_POINTS ==
    << [score |->    0, pct |->   0],
       [score |->  250, pct |->   2],
       [score |->  500, pct |->  15],
       [score |->  750, pct |->  45],
       [score |-> 1000, pct |-> 120] >>

\* Faulty variant: the interpolation forgets the segment's base, p1.pct.
Interpolate_NoBase(score, p1, p2) ==
    LET tn == score - p1.score
        td == p2.score - p1.score
    IN  MathRound((POOL_SIZE \div PctDen) * (tn * (p2.pct - p1.pct)), td)

\* Lines 76-78: t = (score - p1.score) / (p2.score - p1.score),
\* pct = p1.pct + t * (p2.pct - p1.pct), Math.round(POOL_SIZE * pct).
\* pct is the rational (p1.pct * td + tn * (p2.pct - p1.pct)) / (td * PctDen).
Interpolate(score, p1, p2) ==
    LET tn == score - p1.score
        td == p2.score - p1.score
    IN  MathRound((POOL_SIZE \div PctDen) * (p1.pct * td + tn * (p2.pct - p1.pct)), td)

\* Faulty variant: the cap reads the control point before the last.
CapAtMax_OffByOne ==
    MathRound((POOL_SIZE \div PctDen) * MAPPING_POINTS[Len(MAPPING_POINTS) - 1].pct, 1)

\* Line 83: Math.round(POOL_SIZE * MAPPING_POINTS[last].pct).
CapAtMax ==
    MathRound((POOL_SIZE \div PctDen) * MAPPING_POINTS[Len(MAPPING_POINTS)].pct, 1)

RECURSIVE MapLoop(_, _)
\* The for loop of mapScoreToRewards; i is the 1-based index of p1.
MapLoop(score, i) ==
    IF i > Len(MAPPING_POINTS) - 1 THEN CapAtMax
    ELSE LET p1 == MAPPING_POINTS[i]
             p2 == MAPPING_POINTS[i + 1]
         IN  IF score >= p1.score /\ score <= p2.score
             THEN Interpolate(score, p1, p2)
             ELSE MapLoop(score, i + 1)

mapScoreToRewards(score) ==
    IF score <= 0 THEN 0 ELSE MapLoop(score, 1)

\* Faulty variant: the sub-score is not capped.
CapAtOne_Missing(x) == x

\* Math.min(x, 1) of lines 30, 35, 38 and 42.
CapAtOne(x) == Min(x, FxOne)

\* Faulty variant: the recency term is left out of the sum.
WeightedSum_NoRecency(txScore, activeDaysScore, protocolScore, volumeScore, recencyScore) ==
    FxScale(txScore, 35, 100) + FxScale(activeDaysScore, 25, 100)
    + FxScale(protocolScore, 20, 100) + FxScale(volumeScore, 15, 100)

\* Lines 49-54: the weighted sum of the unrounded sub-scores.
WeightedSum(txScore, activeDaysScore, protocolScore, volumeScore, recencyScore) ==
    FxScale(txScore, 35, 100) + FxScale(activeDaysScore, 25, 100)
    + FxScale(protocolScore, 20, 100) + FxScale(volumeScore, 15, 100)
    + FxScale(recencyScore, 5, 100)

\* Faulty variant: recencyDays = 0 is read as "no activity" and scores 0.
RecencyScore_ZeroIsNone(recencyDays) ==
    IF recencyDays = 0 THEN 0
    ELSE IF recencyDays <= 7 THEN FxOne
    ELSE Max(0, FxOne - FxDiv(recencyDays - 7, 83))

\* Line 45.
RecencyScore(recencyDays) ==
    IF recencyDays <= 7 THEN FxOne
    ELSE Max(0, FxOne - FxDiv(recencyDays - 7, 83))

\* Lines 30-54: the unrounded sub-scores and their weighted sum, as
\* fixed-point numbers (the local constants of computeScores).
RawScores(txCount, activeDays, protocols, volumeUSD, recencyDays) ==
    LET txScore == CapAtOne(FxLog10(txCount + 1) \div 3)
        activeDaysScore == CapAtOne(FxDiv(activeDays, 365))
        protocolScore == CapAtOne(FxDiv(protocols, 8))
        volumeScore == CapAtOne(FxScale(FxLog10(volumeUSD + 1), 10, 58))
        recencyScore == RecencyScore(recencyDays)
    IN  [txScore |-> txScore,
         activeDaysScore |-> activeDaysScore,
         protocolScore |-> protocolScore,
         volumeScore |-> volumeScore,
         recencyScore |-> recencyScore,
         finalScore |-> WeightedSum(txScore, activeDaysScore, protocolScore,
                                    volumeScore, recencyScore)]

\* parseFloat(x.toFixed(2)), in hundredths.
ToFixed2(x) == FxRoundTimes(100, x)

\* parseFloat(x.toFixed(3)), in thousandths.
ToFixed3(x) == FxRoundTimes(ScoreDen, x)

\* Faulty variant: the sub-scores are rounded first and finalScore is the
\* weighted sum of the rounded values, rounded to 3 places.
computeScores_RoundsFirst(txCount, activeDays, protocols, volumeUSD, recencyDays) ==
    LET raw == RawScores(txCount, activeDays, protocols, volumeUSD, recencyDays)
        tx == ToFixed2(raw.txScore)
        ad == ToFixed2(raw.activeDaysScore)
        pr == ToFixed2(raw.protocolScore)
        vo == ToFixed2(raw.volumeScore)
        re == ToFixed2(raw.recencyScore)
    IN  [txScore |-> tx,
         activeDaysScore |-> ad,
         protocolScore |-> pr,
         volumeScore |-> vo,
         recencyScore |-> re,
         finalScore |-> MathRound(35 * tx + 25 * ad + 20 * pr + 15 * vo + 5 * re, 10)]

\* Lines 56-63: the returned ScoreBreakdown: sub-scores in hundredths,
\* finalScore in thousandths.
computeScores(txCount, activeDays, protocols, volumeUSD, recencyDays) ==
    LET raw == RawScores(txCount, activeDays, protocols, volumeUSD, recencyDays)
    IN  [txScore |-> ToFixed2(raw.txScore),
         activeDaysScore |-> ToFixed2(raw.activeDaysScore),
         protocolScore |-> ToFixed2(raw.protocolScore),
         volumeScore |-> ToFixed2(raw.volumeScore),
         recencyScore |-> ToFixed2(raw.recencyScore),
         finalScore |-> ToFixed3(raw.finalScore)]

(***************************************************************************)
(* geminiService                                                           *)
(***************************************************************************)
\* Balances are in tenths of the native unit.
BalDen == 10

MAX_BASE_DAYS == 560

\* SATURATION_K = 0.0012 = SaturationKNum / SaturationKDen.
SaturationKNum == 12
SaturationKDen == 10000

\* Line 50: Math.floor(rawTxCount * 0.8).
meaningfulTxCount(rawTxCount) == (rawTxCount * 8) \div 10

\* Faulty variant: the decay is not inverted (MaxDays * e^(-k * Txs)).
estimatedActiveDays_NotInverted(rawTxCount) ==
    IF rawTxCount > 0
    THEN FxRoundTimes(MAX_BASE_DAYS,
                      FxExpNeg(SaturationKNum * rawTxCount, SaturationKDen))
    ELSE 0

\* Lines 60-63.
estimatedActiveDays(rawTxCount) ==
    IF rawTxCount > 0
    THEN FxRoundTimes(MAX_BASE_DAYS,
                      FxOne - FxExpNeg(SaturationKNum * rawTxCount, SaturationKDen))
    ELSE 0

\* Lines 69-77: baseOpValue in halves of a dollar (15 -> 30, 41.5 -> 83).
baseOpValue2(rawTxCount) == IF rawTxCount >= 50 THEN 83 ELSE 30

\* Faulty variant: the 0.5 tier is tested after the 5.0 tier and overrides it.
wealthMultiplier2_WrongOrder(balance) ==
    IF balance * 10 > 5 * BalDen THEN 5
    ELSE IF balance * 10 > 50 * BalDen THEN 24
    ELSE 2

\* Lines 80-88: wealthMultiplier in halves (1 -> 2, 2.5 -> 5, 12 -> 24).
wealthMultiplier2(balance) ==
    IF balance * 10 > 50 * BalDen THEN 24
    ELSE IF balance * 10 > 5 * BalDen THEN 5
    ELSE 2

\* Lines 70-88: the label assigned last.
tierLabel(rawTxCount, balance) ==
    IF balance * 10 > 50 * BalDen THEN "Whale (~$500/tx)"
    ELSE IF balance * 10 > 5 * BalDen THEN "Active (~$100/tx)"
    ELSE IF rawTxCount >= 50 THEN "Regular (~$42/tx)"
    ELSE "Casual (~$15/op)"

\* Lines 91 and 103: Math.round(rawTxCount * baseOpValue * wealthMultiplier);
\* the product of the two halves is in quarters.
estimatedVolumeUSD(rawTxCount, balance) ==
    MathRound(rawTxCount * baseOpValue2(rawTxCount) * wealthMultiplier2(balance), 4)

\* Faulty variant: the estimate is not capped at 30.
estimatedProtocols_NoCap(rawTxCount) ==
    LET m == meaningfulTxCount(rawTxCount)
    IN  IF m = 0 THEN 0
        ELSE FxCeil(FxScale(FxLn(m + 1), 21, 10))

\* Line 95.
estimatedProtocols(rawTxCount) ==
    LET m == meaningfulTxCount(rawTxCount)
    IN  IF m = 0 THEN 0
        ELSE Min(FxCeil(FxScale(FxLn(m + 1), 21, 10)), 30)

\* Faulty variant: without meaningful transactions the recency is the default
\* of computeScores (2 days) instead of 90.
estimatedRecencyDays_DefaultWhenNone(rawTxCount) ==
    LET m == meaningfulTxCount(rawTxCount)
    IN  IF m = 0 THEN 2
        ELSE Max(1, FxDiv(30, FxLn(m + 1) + FxDiv(1, 10)))

\* Line 99.  For a fixed-point d = x * FxOne, floor(30 * FxOne / d) is the
\* integer Math.floor(30 / x).
estimatedRecencyDays(rawTxCount) ==
    LET m == meaningfulTxCount(rawTxCount)
    IN  IF m = 0 THEN 90
        ELSE Max(1, FxDiv(30, FxLn(m + 1) + FxDiv(1, 10)))

deriveStats(rawTxCount, balance) ==
    [activeDays |-> estimatedActiveDays(rawTxCount),
     volumeUSD |-> estimatedVolumeUSD(rawTxCount, balance),
     volumeMethod |-> tierLabel(rawTxCount, balance),
     protocols |-> estimatedProtocols(rawTxCount),
     recencyDays |-> estimatedRecencyDays(rawTxCount)]

(***************************************************************************)
(* State.                                                                  *)
(***************************************************************************)
VARIABLES
    \* App (React state)
    appState,         \* AppState: "IDLE", "LOADING", "RESULT", "ERROR"
    walletInput,      \* the text of the input, a sequence of characters
    result,           \* EstimationResult or Null
    \* getRewardEstimate (one invocation at a time) and getOnChainData
    pc,               \* the statement the invocation is at
    walletAddress,    \* its argument
    balFetch,         \* provider.getBalance: [status, value]
    txFetch,          \* provider.getTransactionCount: [status, value]
    realData,         \* what getOnChainData returned, or Null
    derivedStats,     \* deriveStats' result, or Null
    scores,           \* computeScores' result, or Null
    estimatedRewards, \* mapScoreToRewards' result, or Unassigned
    aiCall,           \* ai.models.generateContent: [status, outcome, text]
    estimate,         \* the promise getRewardEstimate returned: [status, value]
    settled,          \* the sub-fetches that have settled, in order
    \* the pure functions applied on their own
    mapIn,            \* the two scores mapScoreToRewards is applied to
    mapOut,           \* the rewards returned so far, in call order
    csIn,             \* the arguments computeScores is applied to
    csOut,            \* Null, or [scores, estimatedRewards]
    dsIn,             \* the two (rawTxCount, balance) deriveStats is applied to
    dsOut             \* the DerivedStats returned so far, in call order

appVars == <<appState, walletInput, result>>
svcVars == <<pc, walletAddress, balFetch, txFetch, realData, derivedStats,
             scores, estimatedRewards, aiCall, estimate, settled>>
mapVars == <<mapIn, mapOut>>
csVars == <<csIn, csOut>>
dsVars == <<dsIn, dsOut>>
vars == <<appVars, svcVars, mapVars, csVars, dsVars>>

\* null / "not yet assigned".
Null == [type |-> "null"]

\* A numeric local not yet assigned.
Unassigned == 0 - 1

NoFetch == [status |-> "idle", value |-> 0]
NoCall == [status |-> "idle", outcome |-> "none", text |-> ""]
NoPromise == [status |-> "none", value |-> Null]

\* App's initial state (the useState initial values) with no request made.
InitApp ==
    /\ appState = "IDLE"
    /\ walletInput = <<>>
    /\ result = Null

InitSvc ==
    /\ pc = "idle"
    /\ walletAddress = <<>>
    /\ balFetch = NoFetch
    /\ txFetch = NoFetch
    /\ realData = Null
    /\ derivedStats = Null
    /\ scores = Null
    /\ estimatedRewards = Unassigned
    /\ aiCall = NoCall
    /\ estimate = NoPromise
    /\ settled = <<>>

MapUnused == mapIn = <<0, 0>> /\ mapOut = <<>>
CsUnused == csIn = Null /\ csOut = Null
DsUnused == dsIn = <<>> /\ dsOut = <<>>

(***************************************************************************)
(* JavaScript values that cross the narrative boundary.                    *)
(***************************************************************************)
JsUndefined == [type |-> "undefined", str |-> "", items |-> <<>>]
JsNull == [type |-> "null", str |-> "", items |-> <<>>]
JsString(s) == [type |-> "string", str |-> s, items |-> <<>>]
JsNumber(s) == [type |-> "number", str |-> s, items |-> <<>>]
JsArray(xs) == [type |-> "array", str |-> "", items |-> xs]
JsObject(explanation, suggestions) ==
    [type |-> "object", str |-> "", items |-> <<>>,
     explanation |-> explanation, suggestions |-> suggestions]

\* The response texts the narrative collaborator may return.
TextValid == "{\"explanation\":\"E\",\"suggestions\":[\"S1\",\"S2\",\"S3\"]}"
TextOneSuggestion == "{\"explanation\":\"E\",\"suggestions\":[\"S1\"]}"
TextWrongTypes == "{\"explanation\":7,\"suggestions\":\"S1\"}"
TextEmptyObject == "{}"
TextNull == "null"
TextNotJson == "Sorry, I cannot help with that."
TextEmpty == ""

NarrativeTexts == {TextValid, TextOneSuggestion, TextWrongTypes, TextEmptyObject,
                   TextNull, TextNotJson, TextEmpty}

\* JSON.parse on those texts: [throws, value].
JsonParse(text) ==
    CASE text = TextValid ->
           [throws |-> FALSE,
            value |-> JsObject(JsString("E"),
                               JsArray(<<JsString("S1"), JsString("S2"), JsString("S3")>>))]
      [] text = TextOneSuggestion ->
           [throws |-> FALSE,
            value |-> JsObject(JsString("E"), JsArray(<<JsString("S1")>>))]
      [] text = TextWrongTypes ->
           [throws |-> FALSE, value |-> JsObject(JsNumber("7"), JsString("S1"))]
      [] text = TextEmptyObject ->
           [throws |-> FALSE, value |-> JsObject(JsUndefined, JsUndefined)]
      [] text = TextNull -> [throws |-> FALSE, value |-> JsNull]
      [] OTHER -> [throws |-> TRUE, value |-> JsUndefined]

\* Lines 156-159: the literal used when response.text is falsy.
FallbackNoText ==
    JsObject(JsString("Analysis complete based on your on-chain activity pattern."),
             JsArray(<<JsString("Maintain weekly activity"),
                       JsString("Try Aerodrome or Moonwell"),
                       JsString("Increase transaction volume")>>))

\* Lines 191-192: the literals of the catch block.
FallbackOnError ==
    JsObject(JsString("We calculated your score based on your wallet activity pattern."),
             JsArray(<<JsString("Interact with more protocols"),
                       JsString("Increase transaction volume"),
                       JsString("Maintain monthly activity")>>))

(***************************************************************************)
(* App: the wallet input and String.prototype.trim.                        *)
(***************************************************************************)
Chars == {" ", "a"}

WalletInputs == UNION {[1 .. n -> Chars] : n \in 0 .. MaxInputLen}

RECURSIVE TrimStart(_)
TrimStart(s) == IF s # <<>> /\ Head(s) = " " THEN TrimStart(Tail(s)) ELSE s

RECURSIVE TrimEnd(_)
TrimEnd(s) ==
    IF s # <<>> /\ s[Len(s)] = " " THEN TrimEnd(SubSeq(s, 1, Len(s) - 1)) ELSE s

Trim(s) == TrimEnd(TrimStart(s))

(***************************************************************************)
(* The values the wallet-data collaborator may return.                     *)
(***************************************************************************)
TxCounts == {0, 1, 50, 1200, 1000000}
Balances == {0, 5, 6, 51}

Pending == [status |-> "pending", value |-> 0]
Fulfilled(v) == [status |-> "fulfilled", value |-> v]
Rejected == [status |-> "rejected", value |-> 0]

\* Promise.all (line 30): rejected as soon as one operand is rejected,
\* fulfilled once both are fulfilled.
PromiseAllRejected == balFetch.status = "rejected" \/ txFetch.status = "rejected"
PromiseAllFulfilled == balFetch.status = "fulfilled" /\ txFetch.status = "fulfilled"

\* Faulty variant: the join does not wait for both operands (Promise.race).
PromiseAllSettled_Race == balFetch.status # "pending" \/ txFetch.status # "pending"

\* Faulty variant: a rejected operand does not settle the join, so the await
\* of line 30 resumes only when both operands are fulfilled.
PromiseAllSettled_OnlyFulfilled == PromiseAllFulfilled

PromiseAllSettled == PromiseAllRejected \/ PromiseAllFulfilled

\* Faulty variant: the catch block keeps what the other sub-fetch returned.
RpcErrorData_KeepsPartial ==
    [balance |-> balFetch.value, txCount |-> txFetch.value,
     error |-> "Could not fetch on-chain data"]

\* Line 42: what getOnChainData returns from its catch block.
RpcErrorData ==
    [balance |-> 0, txCount |-> 0, error |-> "Could not fetch on-chain data"]

\* Lines 35-39.  parseFloat(formatEther(balanceWei)): the fetched balance is
\* kept in units of 10^17 wei, which are the tenths of the native unit.
RpcData ==
    [balance |-> balFetch.value, txCount |-> txFetch.value, error |-> "null"]

\* JavaScript runs to completion: while the invocation has a continuation
\* ready to run, no external event (a settling call, a user action) is
\* handled.
JsRunnable ==
    \/ pc \in {"deriveStats", "computeScores", "mapScoreToRewards",
               "generateContent", "returned"}
    \/ pc = "getOnChainData" /\ PromiseAllSettled
    \/ pc = "awaitNarrative" /\ aiCall.status \in {"fulfilled", "rejected"}

Harness == MapUnused /\ CsUnused /\ DsUnused
HarnessUnchanged == UNCHANGED <<mapVars, csVars, dsVars>>

(***************************************************************************)
(* App: handlers.                                                          *)
(***************************************************************************)
\* Lines 31-33.  The input is rendered in the IDLE view only.
HandleInputChange ==
    /\ appState = "IDLE"
    /\ ~JsRunnable
    /\ \E v \in WalletInputs : walletInput' = v
    /\ UNCHANGED <<appState, result, svcVars>>
    /\ HarnessUnchanged

\* Faulty variant: the form can be submitted from every view, not only the
\* IDLE view.
HandleSubmit_AnyView ==
    /\ ~JsRunnable
    /\ IF Trim(walletInput) = <<>>
       THEN UNCHANGED <<appVars, svcVars>>
       ELSE /\ appState' = "LOADING"
            /\ walletAddress' = walletInput
            /\ pc' = "getOnChainData"
            /\ balFetch' = Pending
            /\ txFetch' = Pending
            /\ settled' = <<>>
            /\ realData' = Null
            /\ derivedStats' = Null
            /\ scores' = Null
            /\ estimatedRewards' = Unassigned
            /\ aiCall' = NoCall
            /\ estimate' = [status |-> "pending", value |-> Null]
            /\ UNCHANGED <<walletInput, result>>
    /\ HarnessUnchanged

\* Lines 35-42 up to the first suspension: the guard, setAppState(LOADING),
\* the call of getRewardEstimate, which calls getOnChainData (line 112), which
\* issues both sub-fetches (lines 28-33).  The form is rendered in the IDLE
\* view only.
HandleSubmit ==
    /\ appState = "IDLE"
    /\ ~JsRunnable
    /\ IF Trim(walletInput) = <<>>
       THEN UNCHANGED <<appVars, svcVars>>
       ELSE /\ appState' = "LOADING"
            /\ walletAddress' = walletInput
            /\ pc' = "getOnChainData"
            /\ balFetch' = Pending
            /\ txFetch' = Pending
            /\ settled' = <<>>
            /\ realData' = Null
            /\ derivedStats' = Null
            /\ scores' = Null
            /\ estimatedRewards' = Unassigned
            /\ aiCall' = NoCall
            /\ estimate' = [status |-> "pending", value |-> Null]
            /\ UNCHANGED <<walletInput, result>>
    /\ HarnessUnchanged

\* Lines 51-55.  Reset is offered by the RESULT view (rendered when result
\* is set) and by the ERROR view.
HandleReset ==
    /\ \/ appState = "RESULT" /\ result # Null
       \/ appState = "ERROR"
    /\ ~JsRunnable
    /\ walletInput' = <<>>
    /\ result' = Null
    /\ appState' = "IDLE"
    /\ UNCHANGED svcVars
    /\ HarnessUnchanged

(***************************************************************************)
(* The wallet-data collaborator: the two sub-fetches settle.               *)
(***************************************************************************)
GetBalanceSettles ==
    /\ balFetch.status = "pending"
    /\ ~JsRunnable
    /\ \/ \E b \in Balances : balFetch' = Fulfilled(b)
       \/ balFetch' = Rejected
    /\ settled' = Append(settled, "getBalance")
    /\ UNCHANGED <<appVars, pc, walletAddress, txFetch, realData, derivedStats,
                   scores, estimatedRewards, aiCall, estimate>>
    /\ HarnessUnchanged

GetTransactionCountSettles ==
    /\ txFetch.status = "pending"
    /\ ~JsRunnable
    /\ \/ \E n \in TxCounts : txFetch' = Fulfilled(n)
       \/ txFetch' = Rejected
    /\ settled' = Append(settled, "getTransactionCount")
    /\ UNCHANGED <<appVars, pc, walletAddress, balFetch, realData, derivedStats,
                   scores, estimatedRewards, aiCall, estimate>>
    /\ HarnessUnchanged

(***************************************************************************)
(* getOnChainData and getRewardEstimate.                                   *)
(***************************************************************************)
\* Lines 30-43 and 112: the await of Promise.all resumes, getOnChainData
\* returns and getRewardEstimate has realData.
GetOnChainDataReturns ==
    /\ pc = "getOnChainData"
    /\ PromiseAllSettled
    /\ realData' = IF PromiseAllRejected THEN RpcErrorData ELSE RpcData
    /\ pc' = "deriveStats"
    /\ UNCHANGED <<appVars, walletAddress, balFetch, txFetch, derivedStats, scores,
                   estimatedRewards, aiCall, estimate, settled>>
    /\ HarnessUnchanged

\* Line 115.
DeriveStats ==
    /\ pc = "deriveStats"
    /\ derivedStats' = deriveStats(realData.txCount, realData.balance)
    /\ pc' = "computeScores"
    /\ UNCHANGED <<appVars, walletAddress, balFetch, txFetch, realData, scores,
                   estimatedRewards, aiCall, estimate, settled>>
    /\ HarnessUnchanged

\* Lines 118-124.
ComputeScores ==
    /\ pc = "computeScores"
    /\ scores' = computeScores(realData.txCount, derivedStats.activeDays,
                               derivedStats.protocols, derivedStats.volumeUSD,
                               derivedStats.recencyDays)
    /\ pc' = "mapScoreToRewards"
    /\ UNCHANGED <<appVars, walletAddress, balFetch, txFetch, realData, derivedStats,
                   estimatedRewards, aiCall, estimate, settled>>
    /\ HarnessUnchanged

\* Line 126.
MapScoreToRewards ==
    /\ pc = "mapScoreToRewards"
    /\ estimatedRewards' = mapScoreToRewards(scores.finalScore)
    /\ pc' = "generateContent"
    /\ UNCHANGED <<appVars, walletAddress, balFetch, txFetch, realData, derivedStats,
                   scores, aiCall, estimate, settled>>
    /\ HarnessUnchanged

\* Lines 129-154: the prompt is built and the narrative call issued.
GenerateContent ==
    /\ pc = "generateContent"
    /\ aiCall' = [status |-> "pending", outcome |-> "none", text |-> ""]
    /\ pc' = "awaitNarrative"
    /\ UNCHANGED <<appVars, walletAddress, balFetch, txFetch, realData, derivedStats,
                   scores, estimatedRewards, estimate, settled>>
    /\ HarnessUnchanged

\* The narrative collaborator answers with some text, or fails.
GenerateContentSettles ==
    /\ aiCall.status = "pending"
    /\ ~JsRunnable
    /\ \/ \E t \in NarrativeTexts :
            aiCall' = [status |-> "fulfilled", outcome |-> "response", text |-> t]
       \/ aiCall' = [status |-> "rejected", outcome |-> "error", text |-> ""]
    /\ UNCHANGED <<appVars, pc, walletAddress, balFetch, txFetch, realData,
                   derivedStats, scores, estimatedRewards, estimate, settled>>
    /\ HarnessUnchanged

\* Lines 161-175 and 179-193: the EstimationResult; balance stands for
\* realData.balance.toFixed(4).
EstimationResult(explanation, suggestions) ==
    [activityScore |-> scores.finalScore,
     estimatedRewards |-> estimatedRewards,
     stats |-> [balance |-> realData.balance,
                txCount |-> realData.txCount,
                activeDays |-> derivedStats.activeDays,
                volumeUSD |-> derivedStats.volumeUSD,
                volumeMethod |-> derivedStats.volumeMethod,
                protocols |-> derivedStats.protocols],
     scoreBreakdown |-> scores,
     explanation |-> explanation,
     suggestions |-> suggestions]

\* Lines 156-159: aiText, or the throw that leads to the catch block.
\* A rejected call throws at the await; JSON.parse may throw; reading a
\* property of null throws a TypeError.
AiText ==
    IF aiCall.status = "rejected" THEN [throws |-> TRUE, value |-> JsUndefined]
    ELSE IF aiCall.text = TextEmpty THEN [throws |-> FALSE, value |-> FallbackNoText]
    ELSE LET parsed == JsonParse(aiCall.text)
         IN  IF parsed.throws \/ parsed.value.type = "null"
             THEN [throws |-> TRUE, value |-> JsUndefined]
             ELSE parsed

\* Lines 156-194: the await of generateContent resumes; the function
\* returns from the try block or from the catch block.
GetRewardEstimateReturns ==
    /\ pc = "awaitNarrative"
    /\ aiCall.status \in {"fulfilled", "rejected"}
    /\ LET aiText == IF AiText.throws THEN FallbackOnError ELSE AiText.value
       IN  estimate' = [status |-> "fulfilled",
                        value |-> EstimationResult(aiText.explanation,
                                                   aiText.suggestions)]
    /\ pc' = "returned"
    /\ UNCHANGED <<appVars, walletAddress, balFetch, txFetch, realData, derivedStats,
                   scores, estimatedRewards, aiCall, settled>>
    /\ HarnessUnchanged

\* Faulty variant: handleSubmit shows the error view when a collaborator
\* failed, although getRewardEstimate returned a result.
HandleSubmitResumes_ErrorOnFailure ==
    /\ pc = "returned"
    /\ IF /\ estimate.status = "fulfilled"
          /\ balFetch.status # "rejected"
          /\ txFetch.status # "rejected"
          /\ aiCall.status # "rejected"
       THEN result' = estimate.value /\ appState' = "RESULT"
       ELSE result' = result /\ appState' = "ERROR"
    /\ pc' = "idle"
    /\ UNCHANGED <<walletInput, walletAddress, balFetch, txFetch, realData,
                   derivedStats, scores, estimatedRewards, aiCall, estimate, settled>>
    /\ HarnessUnchanged

\* Lines 42-48: the await of getRewardEstimate resumes in handleSubmit.
HandleSubmitResumes ==
    /\ pc = "returned"
    /\ IF estimate.status = "fulfilled"
       THEN result' = estimate.value /\ appState' = "RESULT"
       ELSE result' = result /\ appState' = "ERROR"
    /\ pc' = "idle"
    /\ UNCHANGED <<walletInput, walletAddress, balFetch, txFetch, realData,
                   derivedStats, scores, estimatedRewards, aiCall, estimate, settled>>
    /\ HarnessUnchanged

Init == InitApp /\ InitSvc /\ Harness

Next ==
    \/ HandleInputChange
    \/ HandleSubmit
    \/ HandleReset
    \/ GetBalanceSettles
    \/ GetTransactionCountSettles
    \/ GetOnChainDataReturns
    \/ DeriveStats
    \/ ComputeScores
    \/ MapScoreToRewards
    \/ GenerateContent
    \/ GenerateContentSettles
    \/ GetRewardEstimateReturns
    \/ HandleSubmitResumes

Spec == Init /\ [][Next]_vars

\* The continuation of the invocation that is ready to run (at most one is).
Continuation ==
    \/ GetOnChainDataReturns
    \/ DeriveStats
    \/ ComputeScores
    \/ MapScoreToRewards
    \/ GenerateContent
    \/ GetRewardEstimateReturns
    \/ HandleSubmitResumes

\* The event loop runs the continuation that is ready: weak fairness of
\* Continuation, whose enabling condition ENABLED <<Continuation>>_vars is
\* JsRunnable.
EventLoopFairness == []<>(~JsRunnable) \/ []<><<Continuation>>_vars

\* Every collaborator call that is in flight eventually returns or fails.
\* Nothing is assumed about the user.
Fairness ==
    /\ EventLoopFairness
    /\ WF_vars(GetBalanceSettles)
    /\ WF_vars(GetTransactionCountSettles)
    /\ WF_vars(GenerateContentSettles)

SpecLive == Spec /\ Fairness

(***************************************************************************)
(* mapScoreToRewards applied to a pair of scores, one call after the other. *)
(***************************************************************************)
ScoreGrid == (0 - ScoreSlack) .. (ScoreDen + ScoreSlack)

InitMap ==
    /\ InitApp /\ InitSvc /\ CsUnused /\ DsUnused
    /\ mapIn \in {p \in ScoreGrid \X ScoreGrid : p[1] <= p[2]}
    /\ mapOut = <<>>

CallMapScoreToRewards ==
    /\ Len(mapOut) < 2
    /\ mapOut' = Append(mapOut, mapScoreToRewards(mapIn[Len(mapOut) + 1]))
    /\ UNCHANGED <<mapIn, appVars, svcVars, csVars, dsVars>>

NextMap == CallMapScoreToRewards

SpecMap == InitMap /\ [][NextMap]_vars

(***************************************************************************)
(* computeScores applied to arbitrary non-negative arguments, and          *)
(* mapScoreToRewards to its finalScore as getRewardEstimate does           *)
(* (geminiService lines 118-126).                                          *)
(***************************************************************************)
CsTxCounts == {0, 1, 9, 50, 999, 1000, 5000}
CsActiveDays == {0, 1, 100, 365, 431, 560}
CsProtocols == {0, 1, 3, 8, 30}
CsVolumes == {0, 15, 41500, 498000, 630956, 630957}
CsRecencyDays == {0, 2, 7, 8, 48, 89, 90, 91, 200}

InitScores ==
    /\ InitApp /\ InitSvc /\ MapUnused /\ DsUnused
    /\ csIn \in [txCount : CsTxCounts, activeDays : CsActiveDays,
                 protocols : CsProtocols, volumeUSD : CsVolumes,
                 recencyDays : CsRecencyDays]
    /\ csOut = Null

CallComputeScores ==
    /\ csOut = Null
    /\ LET s == computeScores(csIn.txCount, csIn.activeDays, csIn.protocols,
                              csIn.volumeUSD, csIn.recencyDays)
       IN  csOut' = [scores |-> s,
                     estimatedRewards |-> mapScoreToRewards(s.finalScore)]
    /\ UNCHANGED <<csIn, appVars, svcVars, mapVars, dsVars>>

NextScores == CallComputeScores

SpecScores == InitScores /\ [][NextScores]_vars

(***************************************************************************)
(* deriveStats applied to a pair of (rawTxCount, balance), one call after  *)
(* the other.                                                              *)
(***************************************************************************)
DsTxCounts == {0, 1, 2, 3, 10, 49, 50, 51, 100, 500, 1000, 1200, 3000, 5000,
               5851, 5852, 10000, 1000000}
DsBalances == {0, 5, 6, 50, 51, 60}

\* Counts beyond the point where the protocol estimate reaches its cap of 30.
\* They come with the balances below the Whale tier only: the Whale volume of
\* such a count is beyond the 32-bit integers.
DsHugeTxCounts == {2100000, 3000000}
DsHugeBalances == {0, 5, 6, 50}

DsInputs ==
    [rawTxCount : DsTxCounts, balance : DsBalances]
    \cup [rawTxCount : DsHugeTxCounts, balance : DsHugeBalances]

InitDerive ==
    /\ InitApp /\ InitSvc /\ MapUnused /\ CsUnused
    /\ dsIn \in DsInputs \X DsInputs
    /\ dsOut = <<>>

CallDeriveStats ==
    /\ Len(dsOut) < 2
    /\ LET in == dsIn[Len(dsOut) + 1]
       IN  dsOut' = Append(dsOut, deriveStats(in.rawTxCount, in.balance))
    /\ UNCHANGED <<dsIn, appVars, svcVars, mapVars, csVars>>

NextDerive == CallDeriveStats

SpecDerive == InitDerive /\ [][NextDerive]_vars

(***************************************************************************)
(* Properties of mapScoreToRewards (under SpecMap).                        *)
(***************************************************************************)
\* C1: mapScoreToRewards is monotonically non-decreasing: for all scores
\* s1 < s2 in [0,1] on the 0.001 grid, the reward of s1 is at most that of s2.
C1_Monotone ==
    (Len(mapOut) = 2 /\ 0 <= mapIn[1] /\ mapIn[1] < mapIn[2] /\ mapIn[2] <= ScoreDen)
        => mapOut[1] <= mapOut[2]

\* The two calls straddle the control point 0.25; the rewards are 199 and 205.
C1_Witness ==
    Len(mapOut) = 2 /\ mapIn = <<249, 251>> /\ mapOut[1] < mapOut[2]

\* The control points as C2 states them: score in thousandths, the reward
\* 1_000_000_000 * pct in tokens.
C2_Points == << <<0, 0>>, <<250, 200>>, <<500, 1500>>, <<750, 4500>>, <<1000, 12000>> >>

C2_Brackets(i, s) == C2_Points[i][1] <= s /\ s <= C2_Points[i + 1][1]

\* r = round(x) for the interpolated x = v1 + (s - s1) * (v2 - v1) / (s2 - s1)
\* of segment i: x - 1/2 < r <= x + 1/2, cleared of denominators.
C2_IsRounded(i, s, r) ==
    LET s1 == C2_Points[i][1]
        v1 == C2_Points[i][2]
        s2 == C2_Points[i + 1][1]
        v2 == C2_Points[i + 1][2]
        num == v1 * (s2 - s1) + (s - s1) * (v2 - v1)
    IN  /\ 2 * r * (s2 - s1) <= 2 * num + (s2 - s1)
        /\ 2 * num + (s2 - s1) < 2 * (r + 1) * (s2 - s1)

C8_OutOfRange ==
    \A k \in 1 .. Len(mapOut) :
        /\ mapIn[k] <= 0 => mapOut[k] = 0
        /\ mapIn[k] > ScoreDen => mapOut[k] = 12000

\* A negative score and a score above 1.0 have both been mapped.
C8_Witness ==
    Len(mapOut) = 2 /\ mapIn[1] < 0 /\ mapIn[2] > ScoreDen /\ mapOut = <<0, 12000>>

(***************************************************************************)
(* Properties of computeScores (under SpecScores).                         *)
(***************************************************************************)
\* The weighted sum of the returned (rounded) sub-scores, in units of 10^-4
\* (weights in hundredths times sub-scores in hundredths).
ReturnedWeightedSum(s) ==
    35 * s.txScore + 25 * s.activeDaysScore + 20 * s.protocolScore
    + 15 * s.volumeScore + 5 * s.recencyScore

Abs(x) == IF x < 0 THEN 0 - x ELSE x

\* C3 as stated: the returned finalScore equals 0.35*txScore +
\* 0.25*activeDaysScore + 0.20*protocolScore + 0.15*volumeScore +
\* 0.05*recencyScore of the returned sub-scores.
C3_WeightedSumExact ==
    csOut # Null => 10 * csOut.scores.finalScore = ReturnedWeightedSum(csOut.scores)

\* C3 amended: the returned finalScore equals that weighted sum of the
\* returned sub-scores up to the rounding of the fields: they differ by at
\* most 0.0055.
C3_WeightedSumWithinRounding ==
    csOut # Null =>
        Abs(10 * csOut.scores.finalScore - ReturnedWeightedSum(csOut.scores)) <= 55

\* A breakdown whose finalScore differs from the sum of its returned fields.
C3_Witness ==
    /\ csOut # Null
    /\ 10 * csOut.scores.finalScore # ReturnedWeightedSum(csOut.scores)

\* C4: for all non-negative arguments every field computeScores returns lies
\* in [0,1], and the reward derived from finalScore lies in [0, 12000].
C4_ScoresInUnitRange ==
    csOut # Null =>
        /\ csOut.scores.txScore \in 0 .. 100
        /\ csOut.scores.activeDaysScore \in 0 .. 100
        /\ csOut.scores.protocolScore \in 0 .. 100
        /\ csOut.scores.volumeScore \in 0 .. 100
        /\ csOut.scores.recencyScore \in 0 .. 100
        /\ csOut.scores.finalScore \in 0 .. 1000
        /\ csOut.estimatedRewards \in 0 .. 12000

\* Arguments beyond every saturation point: the raw ratios exceed 1 and the
\* returned fields are exactly 1.
C4_Witness ==
    /\ csOut # Null
    /\ csIn.txCount = 5000 /\ csIn.activeDays = 560 /\ csIn.protocols = 30
    /\ csIn.volumeUSD = 630957 /\ csIn.recencyDays = 0
    /\ csOut.scores.finalScore = 1000
    /\ csOut.estimatedRewards = 12000

\* computeScores was called with txCount, activeDays, protocols and volumeUSD
\* all 0.
C12_ZeroActivity ==
    /\ csOut # Null
    /\ csIn.txCount = 0 /\ csIn.activeDays = 0
    /\ csIn.protocols = 0 /\ csIn.volumeUSD = 0

\* C12 as stated: computeScores called with all-zero arguments (txCount,
\* activeDays, protocols, volumeUSD and recencyDays all 0) returns
\* finalScore = 0.
C12_AllZeroGivesZero ==
    (C12_ZeroActivity /\ csIn.recencyDays = 0) => csOut.scores.finalScore = 0

\* C12 amended: with all-zero arguments the recency sub-score is 1
\* (recencyDays 0 <= 7), the other sub-scores are 0 and finalScore is 0.05;
\* with the four activity arguments 0, finalScore is 0 exactly when
\* recencyDays >= 90.
C12_AllZeroGivesRecencyWeight ==
    C12_ZeroActivity =>
        /\ csOut.scores.txScore = 0 /\ csOut.scores.activeDaysScore = 0
        /\ csOut.scores.protocolScore = 0 /\ csOut.scores.volumeScore = 0
        /\ csIn.recencyDays = 0 =>
              (csOut.scores.recencyScore = 100 /\ csOut.scores.finalScore = 50)
        /\ (csOut.scores.finalScore = 0) <=> (csIn.recencyDays >= 90)

\* computeScores(0, 0, 0, 0, 0) has returned finalScore 0.05.
C12_Witness ==
    /\ C12_ZeroActivity
    /\ csIn.recencyDays = 0
    /\ csOut.scores.finalScore = 50

\* The full-precision sub-scores of the call (the local constants of
\* computeScores before any rounding).
C15_Unrounded ==
    RawScores(csIn.txCount, csIn.activeDays, csIn.protocols, csIn.volumeUSD,
              csIn.recencyDays)

\* C15: rounding does not feed back into the weighted sum: the returned
\* finalScore is the weighted sum (0.35, 0.25, 0.20, 0.15, 0.05) of the
\* unrounded sub-scores, rounded to 3 decimal places, and each returned
\* sub-score is its own unrounded value rounded to 2 decimal places.
C15_RoundingDoesNotFeedBack ==
    csOut # Null =>
        LET raw == C15_Unrounded
            sum == FxScale(raw.txScore, 35, 100)
                   + FxScale(raw.activeDaysScore, 25, 100)
                   + FxScale(raw.protocolScore, 20, 100)
                   + FxScale(raw.volumeScore, 15, 100)
                   + FxScale(raw.recencyScore, 5, 100)
        IN  /\ csOut.scores.finalScore = FxRoundTimes(1000, sum)
            /\ csOut.scores.txScore = FxRoundTimes(100, raw.txScore)
            /\ csOut.scores.activeDaysScore = FxRoundTimes(100, raw.activeDaysScore)
            /\ csOut.scores.protocolScore = FxRoundTimes(100, raw.protocolScore)
            /\ csOut.scores.volumeScore = FxRoundTimes(100, raw.volumeScore)
            /\ csOut.scores.recencyScore = FxRoundTimes(100, raw.recencyScore)

\* computeScores(0, 0, 0, 41500, 0): volumeScore 0.7962 is returned as 0.80,
\* recencyScore as 1; finalScore is 0.169, the rounding of 0.15 * 0.7962 +
\* 0.05, where the returned fields would give 0.15 * 0.80 + 0.05 = 0.170.
C15_Witness ==
    /\ csOut # Null
    /\ csIn = [txCount |-> 0, activeDays |-> 0, protocols |-> 0,
               volumeUSD |-> 41500, recencyDays |-> 0]
    /\ csOut.scores.volumeScore = 80
    /\ csOut.scores.recencyScore = 100
    /\ csOut.scores.finalScore = 169
    /\ ReturnedWeightedSum(csOut.scores) = 1700

(***************************************************************************)
(* Properties of deriveStats (under SpecDerive).                           *)
(***************************************************************************)
\* The tiers as C9 states them, doubled to stay in integers.
C9_BaseOpValue2(txCount) == IF txCount < 50 THEN 30 ELSE 83
C9_WealthMultiplier2(balance) ==
    IF balance > 50 THEN 24 ELSE IF balance > 5 THEN 5 ELSE 2
C9_Label(txCount, balance) ==
    IF balance > 50 THEN "Whale (~$500/tx)"
    ELSE IF balance > 5 THEN "Active (~$100/tx)"
    ELSE IF txCount >= 50 THEN "Regular (~$42/tx)"
    ELSE "Casual (~$15/op)"

\* C9: volumeUSD = round(txCount * baseOpValue * wealthMultiplier) with the
\* stated tiers, volumeMethod the label of the last matching tier;
\* deriveStats(0, b).volumeUSD = 0, deriveStats(1000, 0).volumeUSD = 41500,
\* deriveStats(1000, 6.0) = 498000 with the Whale label.
C9_Volume ==
    \A k \in 1 .. Len(dsOut) :
        LET n == dsIn[k].rawTxCount
            b == dsIn[k].balance
            v == dsOut[k].volumeUSD
            x4 == n * C9_BaseOpValue2(n) * C9_WealthMultiplier2(b)
        IN  /\ 4 * v <= x4 + 2
            /\ x4 + 2 < 4 * v + 4
            /\ dsOut[k].volumeMethod = C9_Label(n, b)
            /\ n = 0 => v = 0
            /\ (n = 1000 /\ b = 0) => v = 41500
            /\ (n = 1000 /\ b = 60) =>
                    (v = 498000 /\ dsOut[k].volumeMethod = "Whale (~$500/tx)")

\* deriveStats(1000, 0) and deriveStats(1000, 6.0) have both returned.
C9_Witness ==
    /\ Len(dsOut) = 2
    /\ dsIn[1] = [rawTxCount |-> 1000, balance |-> 0]
    /\ dsIn[2] = [rawTxCount |-> 1000, balance |-> 60]
    /\ dsOut[1].volumeUSD = 41500
    /\ dsOut[2].volumeUSD = 498000

\* C10: activeDays is within [0, 560], is 0 when txCount = 0, and is
\* non-decreasing in txCount whatever the balances (so equal txCounts give
\* equal activeDays: it does not depend on balance).
C10_ActiveDays ==
    /\ \A k \in 1 .. Len(dsOut) :
          /\ dsOut[k].activeDays \in 0 .. 560
          /\ dsIn[k].rawTxCount = 0 => dsOut[k].activeDays = 0
    /\ Len(dsOut) = 2 =>
          \A i, j \in 1 .. 2 :
              dsIn[i].rawTxCount <= dsIn[j].rawTxCount
                  => dsOut[i].activeDays <= dsOut[j].activeDays

\* 1200 transactions give 427 days, 1_000_000 give the ceiling, with
\* different balances.
C10_Witness ==
    /\ Len(dsOut) = 2
    /\ dsIn[1] = [rawTxCount |-> 1200, balance |-> 0]
    /\ dsIn[2] = [rawTxCount |-> 1000000, balance |-> 60]
    /\ dsOut[1].activeDays = 427
    /\ dsOut[2].activeDays = 560

\* C11: for every txCount >= 0 deriveStats returns protocols as an integer
\* in [0,30] and recencyDays as an integer in [1,90]; meaningfulTxCount =
\* floor(txCount * 0.8) is 0 exactly for txCount 0 and 1, and then protocols
\* is 0 and recencyDays is 90.
C11_ProtocolsRecency ==
    \A k \in 1 .. Len(dsOut) :
        LET n == dsIn[k].rawTxCount
            m == (n * 8) \div 10
        IN  /\ dsOut[k].protocols \in 0 .. 30
            /\ dsOut[k].recencyDays \in 1 .. 90
            /\ (m = 0) <=> (n \in {0, 1})
            /\ m = 0 => (dsOut[k].protocols = 0 /\ dsOut[k].recencyDays = 90)

\* One transaction (none meaningful) gives 0 protocols and 90 days;
\* 3_000_000 transactions give ceil(30.85) = 31 protocols capped at 30, and 2
\* days.
C11_Witness ==
    /\ Len(dsOut) = 2
    /\ dsIn[1].rawTxCount = 1
    /\ dsOut[1].protocols = 0 /\ dsOut[1].recencyDays = 90
    /\ dsIn[2].rawTxCount = 3000000
    /\ dsOut[2].protocols = 30 /\ dsOut[2].recencyDays = 2

(***************************************************************************)
(* Properties of getRewardEstimate (under Spec).                           *)
(***************************************************************************)
\* C5: when the wallet-data collaborator fails, getRewardEstimate goes on
\* with balance = 0 and txCount = 0 and still returns an EstimationResult;
\* whatever the outcome of the wallet-data call, the promise it returned is
\* never rejected, and an invocation that has ended has fulfilled it.
C5_FetchFailureDegrades ==
    /\ estimate.status # "rejected"
    /\ (pc \in {"idle", "returned"} /\ estimate.status # "none")
          => estimate.status = "fulfilled"
    /\ (realData # Null /\ (balFetch.status = "rejected" \/ txFetch.status = "rejected"))
          => (realData.balance = 0 /\ realData.txCount = 0)
    /\ (estimate.status = "fulfilled"
        /\ (balFetch.status = "rejected" \/ txFetch.status = "rejected"))
          => /\ estimate.value.stats.balance = 0
             /\ estimate.value.stats.txCount = 0
             /\ estimate.value.scoreBreakdown = scores
             /\ estimate.value.estimatedRewards = estimatedRewards

\* The transaction count arrived (1200), then the balance fetch failed: the
\* invocation returned a result computed from zeros.
C5_Witness ==
    /\ estimate.status = "fulfilled"
    /\ settled = <<"getTransactionCount", "getBalance">>
    /\ txFetch = Fulfilled(1200)
    /\ balFetch.status = "rejected"
    /\ estimate.value.stats.txCount = 0

\* {explanation: string, suggestions: 3 strings}.
C6_IsNarrative(v) ==
    /\ v.type = "object"
    /\ v.explanation.type = "string"
    /\ v.suggestions.type = "array"
    /\ Len(v.suggestions.items) = 3
    /\ \A i \in 1 .. Len(v.suggestions.items) : v.suggestions.items[i].type = "string"

\* The narrative collaborator answered with a well-formed response.
C6_ResponseWellFormed ==
    /\ aiCall.status = "fulfilled"
    /\ aiCall.text # ""
    /\ ~JsonParse(aiCall.text).throws
    /\ C6_IsNarrative(JsonParse(aiCall.text).value)

\* C6: whenever the narrative collaborator fails or returns a malformed
\* response, the returned EstimationResult carries a fixed fallback
\* explanation and a fixed fallback set of exactly 3 suggestions; so every
\* returned EstimationResult has a string explanation and an array of string
\* suggestions.
C6_NarrativeFallback ==
    estimate.status = "fulfilled" =>
        LET r == estimate.value
        IN  /\ r.explanation.type = "string"
            /\ r.suggestions.type = "array"
            /\ \A i \in 1 .. Len(r.suggestions.items) :
                  r.suggestions.items[i].type = "string"
            /\ ~C6_ResponseWellFormed =>
                  \E f \in {FallbackNoText, FallbackOnError} :
                      /\ r.explanation = f.explanation
                      /\ r.suggestions = f.suggestions
                      /\ Len(r.suggestions.items) = 3

\* C7 as stated: both sub-fetches have settled before deriveStats runs, and
\* the narrative call is issued only after computeScores and
\* mapScoreToRewards have completed.
C7_BothSettledBeforeDerive ==
    /\ derivedStats # Null =>
          (balFetch.status # "pending" /\ txFetch.status # "pending")
    /\ aiCall.status # "idle" => (scores # Null /\ estimatedRewards # Unassigned)

\* C7 amended: before deriveStats runs both sub-fetches have succeeded, or at
\* least one has failed (the other may still be in flight); the narrative
\* call is issued only after deriveStats, computeScores and
\* mapScoreToRewards have completed.
C7_JoinedOrFailedBeforeDerive ==
    /\ derivedStats # Null =>
          \/ balFetch.status = "fulfilled" /\ txFetch.status = "fulfilled"
          \/ balFetch.status = "rejected"
          \/ txFetch.status = "rejected"
    /\ aiCall.status # "idle" =>
          (derivedStats # Null /\ scores # Null /\ estimatedRewards # Unassigned)
    /\ scores # Null => derivedStats # Null
    /\ estimatedRewards # Unassigned => scores # Null

\* The transaction count settled first, the balance second, both
\* successfully; the pipeline has run and the narrative call is in flight.
C7_Witness ==
    /\ settled = <<"getTransactionCount", "getBalance">>
    /\ balFetch.status = "fulfilled"
    /\ txFetch.status = "fulfilled"
    /\ derivedStats # Null
    /\ estimatedRewards # Unassigned
    /\ aiCall.status = "pending"

\* A collaborator call of the current request has failed.
C13_CollaboratorFailed ==
    \/ balFetch.status = "rejected"
    \/ txFetch.status = "rejected"
    \/ aiCall.status = "rejected"

\* One step of the UI as C13 constrains it.
C13_Step ==
    /\ (appState' = "ERROR" /\ appState # "ERROR")
          => (appState = "LOADING" /\ estimate.status = "rejected")
    /\ (appState = "LOADING" /\ appState' # "LOADING" /\ C13_CollaboratorFailed)
          => (appState' = "RESULT" /\ result' = estimate.value /\ result' # Null)

\* C13: the UI enters ERROR only from LOADING and only when the promise of
\* getRewardEstimate is rejected; a request during which the wallet-data
\* collaborator or the narrative collaborator failed leaves LOADING for
\* RESULT, with the result getRewardEstimate returned.
C13_ErrorOnlyOnRejection == [][C13_Step]_vars

\* The balance fetch and the narrative call both failed, and the UI shows a
\* result.
C13_Witness ==
    /\ appState = "RESULT"
    /\ result # Null
    /\ pc = "idle"
    /\ balFetch.status = "rejected"
    /\ aiCall.status = "rejected"
    /\ result.explanation = FallbackOnError.explanation

\* C14: for a wallet with zero transactions, and equally when the
\* wallet-data fetch failed, getRewardEstimate works on txCount = 0 and the
\* pipeline deriveStats -> computeScores -> mapScoreToRewards yields
\* recencyDays = 90, every sub-score 0, finalScore 0 and estimatedRewards 0,
\* whatever the balance; the returned EstimationResult carries these values.
C14_ZeroActivityPipeline ==
    /\ (realData # Null
        /\ (balFetch.status = "rejected" \/ txFetch.status = "rejected"))
          => realData.txCount = 0
    /\ (realData # Null /\ realData.txCount = 0) =>
          /\ derivedStats # Null =>
                /\ derivedStats.recencyDays = 90
                /\ derivedStats.activeDays = 0
                /\ derivedStats.protocols = 0
                /\ derivedStats.volumeUSD = 0
          /\ scores # Null =>
                /\ scores.txScore = 0 /\ scores.activeDaysScore = 0
                /\ scores.protocolScore = 0 /\ scores.volumeScore = 0
                /\ scores.recencyScore = 0 /\ scores.finalScore = 0
          /\ estimatedRewards # Unassigned => estimatedRewards = 0
          /\ estimate.status = "fulfilled" =>
                /\ estimate.value.activityScore = 0
                /\ estimate.value.estimatedRewards = 0

\* A wallet with no transactions and a balance of 5.1 (the Whale tier) has
\* been estimated: recency 90, score 0, reward 0.
C14_Witness ==
    /\ txFetch = Fulfilled(0)
    /\ balFetch = Fulfilled(51)
    /\ estimate.status = "fulfilled"
    /\ derivedStats.recencyDays = 90
    /\ derivedStats.volumeMethod = "Whale (~$500/tx)"
    /\ estimate.value.activityScore = 0
    /\ estimate.value.estimatedRewards = 0

\* The transitions of appState that C16 allows.
C16_Transitions ==
    {<<"IDLE", "LOADING">>, <<"LOADING", "RESULT">>, <<"LOADING", "ERROR">>,
     <<"RESULT", "IDLE">>, <<"ERROR", "IDLE">>}

\* An estimation request is in flight: getRewardEstimate has been called and
\* handleSubmit has not yet resumed from its await.
C16_RequestInFlight == pc # "idle"

C16_Start == appState = "IDLE" /\ walletInput = <<>> /\ result = Null

C16_Inv ==
    /\ appState \in {"IDLE", "LOADING", "RESULT", "ERROR"}
    /\ appState = "RESULT" => result # Null
    /\ C16_RequestInFlight <=> appState = "LOADING"

C16_Step ==
    /\ appState' # appState => <<appState, appState'>> \in C16_Transitions
    \* with a blank input no step starts a request or changes the view
    /\ (appState = "IDLE" /\ Trim(walletInput) = <<>>)
          => (appState' = "IDLE" /\ result' = result /\ pc' = pc
              /\ estimate' = estimate /\ walletAddress' = walletAddress)
    \* a request starts only in IDLE, with no other request in flight, on a
    \* non-blank input
    /\ (pc' = "getOnChainData" /\ pc # "getOnChainData")
          => /\ appState = "IDLE" /\ appState' = "LOADING"
             /\ ~C16_RequestInFlight
             /\ Trim(walletInput) # <<>>
             /\ walletAddress' = walletInput
    /\ (appState = "IDLE" /\ appState' = "LOADING")
          => (pc' = "getOnChainData" /\ walletInput' = walletInput
              /\ result' = result)
    \* input edits happen in IDLE only
    /\ walletInput' # walletInput
          => (appState = "IDLE" \/ (appState' = "IDLE" /\ walletInput' = <<>>))
    \* reset
    /\ (appState \in {"RESULT", "ERROR"} /\ appState' = "IDLE")
          => (walletInput' = <<>> /\ result' = Null)

\* C16: the app starts in IDLE; a submit with blank input changes nothing; a
\* non-blank submit moves IDLE -> LOADING and from LOADING the app moves to
\* RESULT or ERROR only; reset returns to IDLE with walletInput = '' and
\* result = null; whenever appState is RESULT the stored result is non-null;
\* a request is in flight exactly while appState is LOADING and is started
\* only from IDLE, so at most one is in flight at any time.
C16_UiStateMachine == C16_Start /\ []C16_Inv /\ [][C16_Step]_vars

\* A full cycle: a request was submitted, its result shown, and reset
\* brought the app back to IDLE with an empty input and no result.
C16_Witness ==
    /\ appState = "IDLE"
    /\ estimate.status = "fulfilled"
    /\ pc = "idle"
    /\ walletInput = <<>>
    /\ result = Null

(***************************************************************************)
(* Progress of a request (under SpecLive).                                 *)
(***************************************************************************)
\* Whenever getOnChainData has returned after a failed sub-fetch, both
\* balance and txCount are 0, and so are those of the result.
C17_NoPartialData ==
    (balFetch.status = "rejected" \/ txFetch.status = "rejected") =>
        /\ realData # Null => (realData.balance = 0 /\ realData.txCount = 0)
        /\ derivedStats # Null => (derivedStats.activeDays = 0
                                   /\ derivedStats.volumeUSD = 0)
        /\ estimate.status = "fulfilled" =>
              (estimate.value.stats.balance = 0 /\ estimate.value.stats.txCount = 0)

\* C17: provided every collaborator call eventually returns or fails, a UI
\* that entered LOADING eventually shows RESULT or ERROR; and if one of the
\* two concurrent sub-fetches fails, balance and txCount are both replaced
\* by 0, whichever sub-fetch finished first.
C17_LeavesLoading ==
    /\ (appState = "LOADING") ~> (appState \in {"RESULT", "ERROR"})
    /\ []C17_NoPartialData

\* The balance (5.1) arrived first, then the transaction-count fetch
\* failed: the request left LOADING for RESULT with balance 0 and txCount 0.
C17_Witness ==
    /\ appState = "RESULT"
    /\ settled = <<"getBalance", "getTransactionCount">>
    /\ balFetch = Fulfilled(51)
    /\ txFetch.status = "rejected"
    /\ result # Null
    /\ result.stats.balance = 0
    /\ result.stats.txCount = 0

=============================================================================
